---- MODULE Spec2Model ----
(***************************************************************************)
(* State-machine model of icx_reward: the penalty locator                  *)
(* (penalty.py, PenaltyFetcher), the reward engine (reward.py, PRep,       *)
(* Voter, PRepReward) and the vote history builder (vote.py, Vote, Votes,  *)
(* VoteFetcher).                                                           *)
(***************************************************************************)
EXTENDS Integers, Sequences, FiniteSets, TLC

VARIABLES
    \* ---- PenaltyFetcher (penalty.py) ----
    pf_pc,            \* position inside PenaltyFetcher.run: "start", "loop", "done"
    flag_at,          \* the ledger: penalty flag of the PRep at each height (getPRep reply)
    start_height,     \* PenaltyFetcher.__start_height
    end_height,       \* PenaltyFetcher.__end_height
    low,              \* local low of run
    high,             \* local high of run
    cur_penalty,      \* local cur_penalty of run
    target_penalty,   \* local target_penalty of run
    penalties,        \* PenaltyFetcher.__penalties: height -> newly set flag bits
    \* ---- PRepReward, PRep, Voter (reward.py) ----
    rr_pc,            \* the method PRepReward.calculate / Voter.calculate runs next
    executed,         \* the PRepReward methods that have completed, in order
    term_start,       \* PRepReward.__start_height
    term_end,         \* PRepReward.__end_height
    br,               \* PRepReward.__br
    min_bond,         \* PRepReward.__min_bond
    preps,            \* PRepReward.__preps: address -> PRep
    total_prep_reward,        \* PRepReward.__total_prep_reward
    total_wage,               \* PRepReward.__total_wage
    total_accumulated_power,  \* PRepReward.__total_accumulated_power
    ledger,           \* getBond / getDelegation of each voter at the Term's start height
    votes,            \* the votes argument of calculate: the per-voter Votes, in dict order
    vote_diff_list,   \* apply_votes: the part of the sorted vote_diff_list not yet replayed
    voter_address,    \* Voter.__address
    accum_votes,      \* Voter.__accum_votes
    voter_reward,     \* Voter.__reward
    \* ---- VoteFetcher (vote.py) ----
    vf_pc,            \* position inside VoteFetcher.run, export and the import that follows
    vf_start,         \* VoteFetcher.__start_height
    vf_end,           \* VoteFetcher.__end_height
    vf_height,        \* local height of run
    vf_votes,         \* VoteFetcher.__votes: the per-voter Votes, in dict order
    tx_result,        \* local tx_result of run: the transaction result being scanned
    tx_votes,         \* local votes of run: what tx_result_to_votes returned
    vf_file,          \* the exported snapshot file
    im_start,         \* __start_height of the VoteFetcher that imports the file
    im_end,           \* __end_height of the VoteFetcher that imports the file
    im_votes,         \* __votes of the VoteFetcher that imports the file
    im_raised,        \* the exception _import raised, "" when none
    \* ---- Vote.diff (vote.py) ----
    d_pc,             \* position inside Vote.diff
    d_in,             \* the Votes self and prev as they were constructed
    d_heap,           \* the Vote objects alive during diff: "self", "prev", "diff"
    d_ref,            \* local diff of Vote.diff: the object the loop writes to
    \* ---- PRepReward.from_term, check (reward.py, commands.py) ----
    ld_pc,            \* position: "from_term", "loaded", "raised", "checked"
    ld_term,          \* the getPRepTerm reply handed to from_term
    ld_replies,       \* the two queryIScore replies of check
    ld_iscore         \* local iscore of check

pfVars == <<pf_pc, flag_at, start_height, end_height, low, high, cur_penalty,
            target_penalty, penalties>>

rrVars == <<rr_pc, executed, term_start, term_end, br, min_bond, preps,
            total_prep_reward, total_wage, total_accumulated_power, ledger, votes,
            vote_diff_list, voter_address, accum_votes, voter_reward>>

vfVars == <<vf_pc, vf_start, vf_end, vf_height, vf_votes, tx_result, tx_votes, vf_file,
            im_start, im_end, im_votes, im_raised>>

dfVars == <<d_pc, d_in, d_heap, d_ref>>

ldVars == <<ld_pc, ld_term, ld_replies, ld_iscore>>

vars == <<pfVars, rrVars, vfVars, dfVars, ldVars>>

----------------------------------------------------------------------------
(* Bounds and input sets of the penalty locator                            *)

\* longest height range [start, start + MaxSpan] searched with arbitrary flags
MaxSpan == 5

\* first height of every searched range
PenaltyStart == 100

\* the range of the scenario flagAt(100) = 0, flagAt(150) = 0x4
ScenarioEnd == 150

\* penalty flag values the ledger reports (bit 2, bit 4, both, none)
FlagValues == {0, 2, 4, 6}

\* number of bits of PenaltyFlag: the largest member is DoubleSign = 32
FlagWidth == 6

RECURSIVE Pow2(_)
Pow2(n) == IF n = 0 THEN 1 ELSE 2 * Pow2(n - 1)

RECURSIVE BitAnd(_, _)
\* a & b on non-negative integers
BitAnd(a, b) ==
    IF a = 0 \/ b = 0 THEN 0
    ELSE (IF a % 2 = 1 /\ b % 2 = 1 THEN 1 ELSE 0) + 2 * BitAnd(a \div 2, b \div 2)

\* ~a on a PenaltyFlag: the complement within the FlagWidth flag bits
BitNot(a) == (Pow2(FlagWidth) - 1) - a

\* the flag of a recorded Penalty with the complement of cur_penalty dropped
NewBitsKeptOld(cur, penalty) == BitAnd(cur, penalty)

\* penalty.py:81  ~cur_penalty & penalty
NewBits(cur, penalty) == BitAnd(BitNot(cur), penalty)

\* penalty.py:62-63  _get_penalty_flag(height)
GetPenaltyFlag(height) == flag_at[height]

\* penalty.py:75  mid = (low + high) // 2
Mid(lo, hi) == (lo + hi) \div 2

\* the recorded height taken to be the probed height itself
PenaltyHeightAtMid(mid) == mid

\* penalty.py:80-81  the height a detected transition is recorded at
PenaltyHeight(mid) == mid - 1

\* penalty.py:94-99  _add_penalty: self.__penalties[height] = Penalty(height, flag, ...)
AddPenalty(ps, height, flag) ==
    [h \in (DOMAIN ps) \cup {height} |-> IF h = height THEN flag ELSE ps[h]]

NoPenalties == [h \in {} |-> 0]

----------------------------------------------------------------------------
(* Reward engine: constants, inputs and the pure parts of reward.py        *)

\* most Vote events fetched over one Term
MaxVotes == 2

\* the Term of the scenario: start = 100, end = 199
TermStart == 100
TermEnd == 199

\* types/constants: denominator of the reward-fund and commission rates
RATE_DENOM == 10000
\* types/constants: I-Score per ICX unit
ICX_TO_ISCORE_RATE == 1000
\* types/constants: blocks per month
MONTH_BLOCK == 1296000

\* vote.py:23-24
TYPE_BOND == 0
TYPE_DELEGATE == 1

PRepAddrs == {"p1", "p2"}
VoterAddrs == {"v1", "v2"}

\* reward-fund parameters of the Term (rewardFund.Iglobal, Iprep, Iwage)
Iglobal == 20000
Iprep == 7700
Iwage == 1300

\* bondRequirement values of a Term, in percent
BondRequirements == {5, 100}

\* minimumBond of the Term
MinimumBonds == {1000}

\* getPRepTerm entries of an elected PRep: bonded, delegated, commissionRate
SoleBonded == [bonded |-> 1000, delegated |-> 0,   commission_rate |-> 1000]
Backed     == [bonded |-> 1000, delegated |-> 500, commission_rate |-> 1000]
Unbonded   == [bonded |-> 0,    delegated |-> 500, commission_rate |-> 0]

\* the rosters of a Term: address -> getPRepTerm entry
Rosters ==
    { [a \in {"p1"} |-> SoleBonded],
      [a \in {"p1", "p2"} |-> IF a = "p1" THEN Backed ELSE Unbonded],
      [a \in {"p1", "p2"} |-> IF a = "p1" THEN Unbonded ELSE Backed] }

\* a dict with no key
EmptyDict == [k \in {} |-> 0]

\* the target -> amount maps a SetBond / SetDelegation event or a getBond /
\* getDelegation reply carries
VoteValues == { EmptyDict, [k \in {"p1"} |-> 200], [k \in {"p2"} |-> 300] }
LedgerValues == { EmptyDict, [k \in {"p1"} |-> 200] }

\* Term offsets of the blocks that carry Vote events
VoteOffsets == {0, 50}

\* Slashed events of the Term's penalties: height -> <<[prep, bonder, amount]>>
SlashInputs ==
    { EmptyDict,
      [h \in {130} |-> <<[prep |-> "p1", bonder |-> "v1", amount |-> 100]>>] }

\* Python's // with a positive divisor: the floor of the quotient
FloorDiv(a, b) == a \div b

\* the quotient rounded toward zero
TruncDiv(a, b) == IF a >= 0 THEN a \div b ELSE -((-a) \div b)

Min(a, b) == IF a <= b THEN a ELSE b

RECURSIVE SumOver(_, _)
\* the sum of f[k] over the keys k of S
SumOver(f, S) ==
    IF S = {} THEN 0
    ELSE LET k == CHOOSE x \in S : TRUE IN f[k] + SumOver(f, S \ {k})

\* dict.get(k, 0)
Get(d, k) == IF k \in DOMAIN d THEN d[k] ELSE 0

\* reward.py:236-237  PRepReward.period with the + 1 left out
PeriodExclusive(start, end) == end - start

\* reward.py:236-237  PRepReward.period
Period(start, end) == end + 1 - start

\* reward.py:239-240  PRepReward.offset_limit
OffsetLimit(start, end) == Period(start, end) - 1

\* reward.py:224-226  PRepReward._reward_iscore_of_term
RewardIscoreOfTerm(iglobal, rate, term_period) ==
    FloorDiv(FloorDiv(iglobal * rate, RATE_DENOM) * ICX_TO_ISCORE_RATE * term_period,
             MONTH_BLOCK)

\* the power the ledger reports for a PRep: min(bonded * 100 / br, bonded + delegated)
PowerOf(bonded, delegated, bondReq) ==
    Min(FloorDiv(bonded * 100, bondReq), bonded + delegated)

\* reward.py:15-28, 120-129  PRep.from_get_prep / PRep.__init__
NewPRep(entry, bondReq) ==
    [ enable |-> TRUE,
      bonded |-> entry.bonded,
      delegated |-> entry.delegated,
      power |-> PowerOf(entry.bonded, entry.delegated, bondReq),
      commission_rate |-> entry.commission_rate,
      accumulated_voted |-> 0,
      accumulated_power |-> 0,
      commission |-> 0,
      voter_reward |-> 0,
      wage |-> 0,
      penalties |-> EmptyDict ]

\* reward.py:71-72  PRep.rewardable
Rewardable(prep) == prep.enable /\ prep.accumulated_power > 0

\* reward.py:77-79  PRep.init_accumulated_values
InitAccumulated(prep, period) ==
    [prep EXCEPT !.accumulated_voted = (prep.bonded + prep.delegated) * period,
                 !.accumulated_power = prep.power * period]

\* apply_vote_diff with the cap of the power by bonded + delegated left out
ApplyVoteDiffUncapped(prep, type_, value, period, bondReq) ==
    LET bonded == IF type_ = TYPE_BOND THEN prep.bonded + value ELSE prep.bonded
        delegated == IF type_ = TYPE_BOND THEN prep.delegated ELSE prep.delegated + value
        power == FloorDiv(bonded * 100, bondReq)
    IN [prep EXCEPT !.bonded = bonded,
                    !.delegated = delegated,
                    !.accumulated_voted = prep.accumulated_voted + value * period,
                    !.power = power,
                    !.accumulated_power = prep.accumulated_power + (power - prep.power) * period]

\* apply_vote_diff that adds every delta to the delegated amount
ApplyVoteDiffAsDelegation(prep, type_, value, period, bondReq) ==
    LET bonded == prep.bonded
        delegated == prep.delegated + value
        power == Min(FloorDiv(bonded * 100, bondReq), bonded + delegated)
    IN [prep EXCEPT !.bonded = bonded,
                    !.delegated = delegated,
                    !.accumulated_voted = prep.accumulated_voted + value * period,
                    !.power = power,
                    !.accumulated_power = prep.accumulated_power + (power - prep.power) * period]

\* reward.py:91-101  PRep.apply_vote_diff
ApplyVoteDiff(prep, type_, value, period, bondReq) ==
    LET bonded == IF type_ = TYPE_BOND THEN prep.bonded + value ELSE prep.bonded
        delegated == IF type_ = TYPE_BOND THEN prep.delegated ELSE prep.delegated + value
        power == Min(FloorDiv(bonded * 100, bondReq), bonded + delegated)
    IN [prep EXCEPT !.bonded = bonded,
                    !.delegated = delegated,
                    !.accumulated_voted = prep.accumulated_voted + value * period,
                    !.power = power,
                    !.accumulated_power = prep.accumulated_power + (power - prep.power) * period]

\* calculate_reward that keeps the whole reward as voter reward
PRepCalculateRewardNoSplit(prep, total_reward, total_accum_power, wage, minBond) ==
    IF Rewardable(prep)
    THEN LET reward == FloorDiv(total_reward * prep.accumulated_power, total_accum_power)
             commission == FloorDiv(reward * prep.commission_rate, RATE_DENOM)
         IN [prep EXCEPT !.commission = commission,
                         !.voter_reward = reward,
                         !.wage = IF prep.bonded >= minBond THEN wage ELSE prep.wage]
    ELSE prep

\* calculate_reward that pays the wage whatever the bonded amount is
PRepCalculateRewardAnyBond(prep, total_reward, total_accum_power, wage, minBond) ==
    IF Rewardable(prep)
    THEN LET reward == FloorDiv(total_reward * prep.accumulated_power, total_accum_power)
             commission == FloorDiv(reward * prep.commission_rate, RATE_DENOM)
         IN [prep EXCEPT !.commission = commission,
                         !.voter_reward = reward - commission,
                         !.wage = wage]
    ELSE prep

\* calculate_reward whose share of the pool is rounded up
PRepCalculateRewardRoundedUp(prep, total_reward, total_accum_power, wage, minBond) ==
    IF Rewardable(prep)
    THEN LET reward == FloorDiv(total_reward * prep.accumulated_power
                                  + total_accum_power - 1, total_accum_power)
             commission == FloorDiv(reward * prep.commission_rate, RATE_DENOM)
         IN [prep EXCEPT !.commission = commission,
                         !.voter_reward = reward - commission,
                         !.wage = IF prep.bonded >= minBond THEN wage ELSE prep.wage]
    ELSE prep

\* reward.py:103-109  PRep.calculate_reward
PRepCalculateReward(prep, total_reward, total_accum_power, wage, minBond) ==
    IF Rewardable(prep)
    THEN LET reward == FloorDiv(total_reward * prep.accumulated_power, total_accum_power)
             commission == FloorDiv(reward * prep.commission_rate, RATE_DENOM)
         IN [prep EXCEPT !.commission = commission,
                         !.voter_reward = reward - commission,
                         !.wage = IF prep.bonded >= minBond THEN wage ELSE prep.wage]
    ELSE prep

\* reward.py:111-112  PRep.voter_reward_for
VoterRewardFor(prep, accumulated_vote) ==
    FloorDiv(prep.voter_reward * accumulated_vote, prep.accumulated_voted)

\* vote.py:26-32  Vote.__init__
NewVote(owner, type_, offset, values) ==
    [owner |-> owner, type |-> type_, offset |-> offset, values |-> values]

\* the prev argument of Vote.diff when there is no previous Vote
None == [none |-> TRUE]

\* vote.py:58-64  Vote.diff: a copy of self with prev's values subtracted
VoteDiff(self, prev) ==
    IF prev = None THEN self
    ELSE [self EXCEPT !.values =
            [k \in (DOMAIN self.values) \cup (DOMAIN prev.values) |->
                IF k \in DOMAIN prev.values
                THEN Get(self.values, k) - prev.values[k]
                ELSE self.values[k]]]

\* vote.py:125-131  Vote.from_get_bond
FromGetBond(owner, reply) == NewVote(owner, TYPE_BOND, -1, reply)

\* vote.py:133-140  Vote.from_get_delegation
FromGetDelegation(owner, reply) == NewVote(owner, TYPE_DELEGATE, -1, reply)

\* vote.py:144-147  Votes.__init__
NewVotes(owner) == [owner |-> owner, bonds |-> <<>>, delegations |-> <<>>]

\* vote.py:164-168  Votes.append_vote
AppendVote(vs, vote) ==
    IF vote.type = TYPE_BOND
    THEN [vs EXCEPT !.bonds = Append(vs.bonds, vote)]
    ELSE [vs EXCEPT !.delegations = Append(vs.delegations, vote)]

\* the position of owner's Votes in the per-voter dict, 0 when it has none
IndexOf(dict, owner) ==
    IF \E i \in 1..Len(dict) : dict[i].owner = owner
    THEN CHOOSE i \in 1..Len(dict) : dict[i].owner = owner
    ELSE 0

RECURSIVE UpdateVotes(_, _)
\* vote.py:250-258  VoteFetcher.update_votes: append each Vote to its owner's Votes
UpdateVotes(dict, events) ==
    IF events = <<>> THEN dict
    ELSE LET vote == Head(events)
             i == IndexOf(dict, vote.owner)
             next == IF i = 0
                     THEN Append(dict, AppendVote(NewVotes(vote.owner), vote))
                     ELSE [dict EXCEPT ![i] = AppendVote(dict[i], vote)]
         IN UpdateVotes(next, Tail(events))

RECURSIVE DiffList(_, _)
\* vote.py:177-183  the loop of _vote_values_for_prep: each Vote diffed against
\* the one before it, the first against the ledger's reply at the start height
DiffList(list, prev) ==
    IF list = <<>> THEN <<>>
    ELSE <<VoteDiff(Head(list), prev)>> \o DiffList(Tail(list), Head(list))

\* Votes.to_vote_diff_list: the diffs of the bonds, then of the delegations
ToVoteDiffList(vs, led) ==
    DiffList(vs.bonds, FromGetBond(vs.owner, led[vs.owner].bonds))
        \o DiffList(vs.delegations, FromGetDelegation(vs.owner, led[vs.owner].delegations))

RECURSIVE AllVoteDiffs(_, _)
\* reward.py:292-293  the vote diffs of every voter, in dict order
AllVoteDiffs(dict, led) ==
    IF dict = <<>> THEN <<>>
    ELSE ToVoteDiffList(Head(dict), led) \o AllVoteDiffs(Tail(dict), led)

RECURSIVE SlashDiffs(_, _, _, _)
\* Penalty.slash_event_to_vote_diff_list: a bond Vote of -amount per Slashed event
SlashDiffs(events, address, height, start) ==
    IF events = <<>> THEN <<>>
    ELSE <<NewVote(Head(events).bonder, TYPE_BOND, height - start,
                   [k \in {address} |-> -Head(events).amount])>>
            \o SlashDiffs(Tail(events), address, height, start)

RECURSIVE PenaltiesToVoteDiffList(_, _, _, _)
\* reward.py:114-118  PRep.penalties_to_vote_diff_list, over the heights hs
PenaltiesToVoteDiffList(prep, address, hs, start) ==
    IF hs = {} THEN <<>>
    ELSE LET h == CHOOSE x \in hs : \A y \in hs : x <= y
         IN SlashDiffs(prep.penalties[h], address, h, start)
                \o PenaltiesToVoteDiffList(prep, address, hs \ {h}, start)

\* the order of the roster dict
IndexOfAddr(a) == IF a = "p1" THEN 1 ELSE 2

RECURSIVE AllPenaltyDiffs(_, _, _)
\* reward.py:294-295  the slash diffs of every PRep of the roster
AllPenaltyDiffs(ps, addrs, start) ==
    IF addrs = {} THEN <<>>
    ELSE LET a == CHOOSE x \in addrs : \A y \in addrs : IndexOfAddr(x) <= IndexOfAddr(y)
         IN PenaltiesToVoteDiffList(ps[a], a, DOMAIN ps[a].penalties, start)
                \o AllPenaltyDiffs(ps, addrs \ {a}, start)

RECURSIVE Insert(_, _)
\* v put behind the last Vote of the sorted list that is not higher than it
Insert(sorted, v) ==
    IF sorted = <<>> THEN <<v>>
    ELSE IF sorted[Len(sorted)].offset <= v.offset THEN Append(sorted, v)
    ELSE Append(Insert(SubSeq(sorted, 1, Len(sorted) - 1), v), sorted[Len(sorted)])

RECURSIVE SortedFrom(_, _)
SortedFrom(sorted, list) ==
    IF list = <<>> THEN sorted ELSE SortedFrom(Insert(sorted, Head(list)), Tail(list))

\* the merged list replayed in the order it was collected
Unsorted(list) == list

\* reward.py:296  vote_diff_list.sort(key=lambda x: x.height): a stable sort
SortByHeight(list) == SortedFrom(<<>>, list)

\* reward.py:300-306  one Vote of the list replayed on the PReps it names
ReplayVote(ps, vote, limit, bondReq) ==
    [a \in DOMAIN ps |->
        IF a \in DOMAIN vote.values
        THEN ApplyVoteDiff(ps[a], vote.type, vote.values[a], limit - vote.offset, bondReq)
        ELSE ps[a]]

\* the sum that leaves out the PReps that are not enabled
TotalAccumulatedPowerEnabled(ps) ==
    SumOver([a \in DOMAIN ps |-> IF ps[a].enable THEN ps[a].accumulated_power ELSE 0],
            DOMAIN ps)

\* reward.py:308-312  the sum of the accumulated power of the PReps
TotalAccumulatedPower(ps) ==
    SumOver([a \in DOMAIN ps |-> ps[a].accumulated_power], DOMAIN ps)

RECURSIVE VoteValuesForPrep(_, _, _, _)
\* vote.py:170-184  Votes._vote_values_for_prep: the diffs of one list, weighted
\* by the blocks that remain after each
VoteValuesForPrep(list, prev, prep, limit) ==
    IF list = <<>> THEN 0
    ELSE LET diff == VoteDiff(Head(list), prev)
             period == limit - diff.offset
         IN (IF prep \in DOMAIN diff.values THEN period * diff.values[prep] ELSE 0)
                + VoteValuesForPrep(Tail(list), Head(list), prep, limit)

\* vote.py:186-188  Votes.accumulated_values_for_prep: <<bonds, delegations>>
AccumulatedValuesForPrep(vs, led, prep, limit) ==
    << VoteValuesForPrep(vs.bonds, FromGetBond(vs.owner, led[vs.owner].bonds), prep, limit),
       VoteValuesForPrep(vs.delegations,
                         FromGetDelegation(vs.owner, led[vs.owner].delegations), prep, limit) >>

\* the targets named by a list of Votes or by the ledger's reply before them
TargetsOf(list, reply) ==
    (DOMAIN reply) \cup UNION {DOMAIN list[i].values : i \in 1..Len(list)}

\* Votes.accumulated_votes_for_voter: target -> accumulated bond + delegation
AccumulatedVotesForVoter(vs, led, limit) ==
    LET targets == (IF vs.bonds = <<>> THEN {}
                    ELSE TargetsOf(vs.bonds, led[vs.owner].bonds))
                   \cup (IF vs.delegations = <<>> THEN {}
                         ELSE TargetsOf(vs.delegations, led[vs.owner].delegations))
    IN [t \in targets |->
          AccumulatedValuesForPrep(vs, led, t, limit)[1]
            + AccumulatedValuesForPrep(vs, led, t, limit)[2]]

RECURSIVE SlashAmount(_, _)
\* penalty.py:21-24  the Slashed amounts of one Penalty that name the bonder
SlashAmount(events, bonder) ==
    IF events = <<>> THEN 0
    ELSE (IF Head(events).bonder = bonder THEN Head(events).amount ELSE 0)
            + SlashAmount(Tail(events), bonder)

\* penalty.py:18-25  Penalty.accumulated_slash_amount
AccumulatedSlashAmount(events, height, end, bonder) ==
    SlashAmount(events, bonder) * (end - height)

\* reward.py:170-175  the slash amounts of one disabled PRep, over its penalties
SlashOfPRep(prep, end, bonder) ==
    SumOver([h \in DOMAIN prep.penalties |->
                AccumulatedSlashAmount(prep.penalties[h], h, end, bonder)],
            DOMAIN prep.penalties)

\* reward.py:165-175  Voter._update_accumulated_votes_with_slash; the caller's
\* end_height argument is the Voter's start height
UpdateAccumulatedVotesWithSlash(accum, ps, start, bonder) ==
    LET slashed == {a \in DOMAIN ps : ~ps[a].enable /\ DOMAIN ps[a].penalties /= {}}
    IN [a \in (DOMAIN accum) \cup slashed |->
          IF a \in slashed THEN Get(accum, a) - SlashOfPRep(ps[a], start, bonder)
          ELSE accum[a]]

\* reward.py:182-198  Voter.calculate_reward: the reward it adds up
VoterCalculateReward(accum, ps) ==
    SumOver([a \in DOMAIN accum |->
                IF accum[a] = 0 \/ a \notin DOMAIN ps THEN 0
                ELSE VoterRewardFor(ps[a], accum[a])],
            DOMAIN accum)

\* Penalty.get_by_address: the events of a Penalty that name the PRep
GetByAddress(events, address) ==
    LET Names(e) == e.prep = address IN SelectSeq(events, Names)

\* reward.py:85-89  PRep.update_penalty
UpdatePenalty(prep, address, slashes) ==
    LET kept == {h \in DOMAIN slashes : GetByAddress(slashes[h], address) /= <<>>}
    IN [prep EXCEPT !.penalties =
          [h \in (DOMAIN prep.penalties) \cup kept |->
              IF h \in kept THEN GetByAddress(slashes[h], address) ELSE prep.penalties[h]]]

\* calculate with init_accumulated_values and update_enables exchanged
CalculateNextSwapped(method) ==
    CASE method = "new" -> "update_enables"
      [] method = "update_enables" -> "init_accumulated_values"
      [] method = "init_accumulated_values" -> "update_penalties"
      [] method = "update_penalties" -> "apply_votes"
      [] method = "apply_votes" -> "calculate_reward"
      [] method = "calculate_reward" -> "voter"

\* reward.py:325-330  PRepReward.calculate: the method that follows each method
\* (commands.py:139-141: the Voter is built and run after calculate)
CalculateNext(method) ==
    CASE method = "new" -> "init_accumulated_values"
      [] method = "init_accumulated_values" -> "update_enables"
      [] method = "update_enables" -> "update_penalties"
      [] method = "update_penalties" -> "apply_votes"
      [] method = "apply_votes" -> "calculate_reward"
      [] method = "calculate_reward" -> "voter"

\* the voters' transactions of a Term: v1 bonds and delegates, v2 delegates
VoteKinds == { <<"v1", TYPE_BOND>>, <<"v1", TYPE_DELEGATE>>, <<"v2", TYPE_DELEGATE>> }

\* the Vote events of a Term, as the fetcher decodes them
VoteEvents ==
    { NewVote(k[1], k[2], off, v) : k \in VoteKinds, off \in VoteOffsets, v \in VoteValues }

\* the event sequences of at most MaxVotes events, in height order
EventSeqs ==
    UNION { {s \in [1..n -> VoteEvents] : \A i \in 1..(n - 1) : s[i].offset <= s[i + 1].offset}
            : n \in 0..MaxVotes }

\* the getBond / getDelegation replies at the start height: v2 holds no vote
\* before the Term
Ledgers ==
    { [v \in VoterAddrs |-> IF v = "v1" THEN [bonds |-> b, delegations |-> d]
                                        ELSE [bonds |-> EmptyDict, delegations |-> EmptyDict]]
        : b \in LedgerValues, d \in LedgerValues }

RECURSIVE NeverNegative(_, _, _, _)
\* no PRep's bonded or delegated amount falls below zero while the list is replayed
NeverNegative(ps, list, limit, bondReq) ==
    /\ \A a \in DOMAIN ps : ps[a].bonded >= 0 /\ ps[a].delegated >= 0
    /\ list /= <<>> =>
          NeverNegative(ReplayVote(ps, Head(list), limit, bondReq), Tail(list), limit, bondReq)

\* the replies, events and penalties one ledger can hold together
ConsistentLedger(ps, led, dict, list, limit, bondReq) ==
    /\ \A a \in DOMAIN ps :
          /\ SumOver([v \in VoterAddrs |-> Get(led[v].bonds, a)], VoterAddrs) <= ps[a].bonded
          /\ SumOver([v \in VoterAddrs |-> Get(led[v].delegations, a)], VoterAddrs)
                <= ps[a].delegated
          /\ \A h \in DOMAIN ps[a].penalties : \A i \in 1..Len(ps[a].penalties[h]) :
                LET e == ps[a].penalties[h][i] IN Get(led[e.bonder].bonds, a) >= e.amount
    /\ \A v \in VoterAddrs :
          LET i == IndexOf(dict, v)
              slashed == \E a \in DOMAIN ps : \E h \in DOMAIN ps[a].penalties :
                            \E j \in 1..Len(ps[a].penalties[h]) :
                                ps[a].penalties[h][j].bonder = v
          IN /\ (led[v].bonds /= EmptyDict) =>
                    (slashed \/ (i /= 0 /\ dict[i].bonds /= <<>>))
             /\ (led[v].delegations /= EmptyDict) => (i /= 0 /\ dict[i].delegations /= <<>>)
    /\ NeverNegative(ps, list, limit, bondReq)

\* the reward engine before any Term is loaded
RewardIdle ==
    /\ rr_pc = "idle"
    /\ executed = <<>>
    /\ term_start = 0
    /\ term_end = 0
    /\ br = 0
    /\ min_bond = 0
    /\ preps = EmptyDict
    /\ total_prep_reward = 0
    /\ total_wage = 0
    /\ total_accumulated_power = 0
    /\ ledger = EmptyDict
    /\ votes = <<>>
    /\ vote_diff_list = <<>>
    /\ voter_address = ""
    /\ accum_votes = EmptyDict
    /\ voter_reward = 0

\* no penalty search under way
PenaltyIdle ==
    /\ pf_pc = "idle"
    /\ flag_at = EmptyDict
    /\ start_height = 0
    /\ end_height = 0
    /\ low = 0
    /\ high = 0
    /\ cur_penalty = 0
    /\ target_penalty = 0
    /\ penalties = EmptyDict

\* no vote history being built
VotesIdle ==
    /\ vf_pc = "idle"
    /\ vf_start = 0
    /\ vf_end = 0
    /\ vf_height = 0
    /\ vf_votes = <<>>
    /\ tx_result = None
    /\ tx_votes = <<>>
    /\ vf_file = None
    /\ im_start = 0
    /\ im_end = 0
    /\ im_votes = <<>>
    /\ im_raised = ""

\* no Vote.diff under way
DiffIdle ==
    /\ d_pc = "idle"
    /\ d_in = <<>>
    /\ d_heap = EmptyDict
    /\ d_ref = ""

\* no Term being loaded
LoadIdle ==
    /\ ld_pc = "idle"
    /\ ld_term = None
    /\ ld_replies = <<>>
    /\ ld_iscore = 0

----------------------------------------------------------------------------
(* PenaltyFetcher                                                          *)

\* the ledger's flags over [start - 1, end]: any sequence of flags over a short
\* range, or the scenario's single step from 0 to 0x4 over [100, 150]
InitPenalty ==
    /\ pf_pc = "start"
    /\ start_height = PenaltyStart
    /\ \/ \E span \in 0..MaxSpan :
            /\ end_height = PenaltyStart + span
            /\ flag_at \in [(PenaltyStart - 1)..(PenaltyStart + span) -> FlagValues]
       \/ \E t \in PenaltyStart..(ScenarioEnd - 1) :
            /\ end_height = ScenarioEnd
            /\ flag_at = [h \in (PenaltyStart - 1)..ScenarioEnd |-> IF h <= t THEN 0 ELSE 4]
    /\ low = 0
    /\ high = 0
    /\ cur_penalty = 0
    /\ target_penalty = 0
    /\ penalties = NoPenalties
    /\ RewardIdle
    /\ VotesIdle
    /\ DiffIdle
    /\ LoadIdle

\* the search resumed at mid itself
NextLowAtMid(mid) == mid

\* penalty.py:85, 92  low = mid + 1
NextLow(mid) == mid + 1

\* penalty.py:74  while low <= high: the test that follows every iteration
LoopTest(lo, hi) == IF lo <= hi THEN "loop" ELSE "done"

\* penalty.py:66-74  the head of run: read both ends, return when they agree
RunStart ==
    /\ pf_pc = "start"
    /\ low' = start_height
    /\ high' = end_height
    /\ cur_penalty' = GetPenaltyFlag(start_height)
    /\ target_penalty' = GetPenaltyFlag(end_height)
    /\ pf_pc' = IF GetPenaltyFlag(start_height) = GetPenaltyFlag(end_height)
                THEN "done" ELSE LoopTest(start_height, end_height)
    /\ UNCHANGED <<flag_at, start_height, end_height, penalties>>
    /\ UNCHANGED <<rrVars, vfVars, dfVars, ldVars>>

\* penalty.py:75-76, 91-92  flag at mid is still cur_penalty: search the upper half
RunUpper ==
    /\ pf_pc = "loop"
    /\ LET mid == Mid(low, high) IN
        /\ cur_penalty = GetPenaltyFlag(mid)
        /\ low' = NextLow(mid)
        /\ pf_pc' = LoopTest(NextLow(mid), high)
    /\ UNCHANGED <<flag_at, start_height, end_height, high, cur_penalty,
                   target_penalty, penalties>>
    /\ UNCHANGED <<rrVars, vfVars, dfVars, ldVars>>

\* penalty.py:75-79, 89-90  flag changed before mid - 1: search the lower half
RunLower ==
    /\ pf_pc = "loop"
    /\ LET mid == Mid(low, high) IN
        /\ cur_penalty /= GetPenaltyFlag(mid)
        /\ cur_penalty /= GetPenaltyFlag(mid - 1)
        /\ high' = mid - 1
        /\ pf_pc' = LoopTest(low, mid - 1)
    /\ UNCHANGED <<flag_at, start_height, end_height, low, cur_penalty,
                   target_penalty, penalties>>
    /\ UNCHANGED <<rrVars, vfVars, dfVars, ldVars>>

\* penalty.py:75-88  transition found, more to find: record it and search again
RunFound ==
    /\ pf_pc = "loop"
    /\ LET mid == Mid(low, high)
           penalty == GetPenaltyFlag(mid) IN
        /\ cur_penalty /= penalty
        /\ cur_penalty = GetPenaltyFlag(mid - 1)
        /\ penalties' = AddPenalty(penalties, PenaltyHeight(mid), NewBits(cur_penalty, penalty))
        /\ target_penalty /= penalty
        /\ low' = NextLow(mid)
        /\ high' = end_height
        /\ cur_penalty' = penalty
        /\ pf_pc' = LoopTest(NextLow(mid), end_height)
    /\ UNCHANGED <<flag_at, start_height, end_height, target_penalty>>
    /\ UNCHANGED <<rrVars, vfVars, dfVars, ldVars>>

\* penalty.py:75-83  transition found and the target flag reached: record, break
RunFoundLast ==
    /\ pf_pc = "loop"
    /\ LET mid == Mid(low, high)
           penalty == GetPenaltyFlag(mid) IN
        /\ cur_penalty /= penalty
        /\ cur_penalty = GetPenaltyFlag(mid - 1)
        /\ penalties' = AddPenalty(penalties, PenaltyHeight(mid), NewBits(cur_penalty, penalty))
        /\ target_penalty = penalty
        /\ pf_pc' = "done"
    /\ UNCHANGED <<flag_at, start_height, end_height, low, high, cur_penalty,
                   target_penalty>>
    /\ UNCHANGED <<rrVars, vfVars, dfVars, ldVars>>

NextPenalty ==
    \/ RunStart
    \/ RunUpper
    \/ RunLower
    \/ RunFound
    \/ RunFoundLast

SpecPenalty == InitPenalty /\ [][NextPenalty]_vars

\* run is one sequential call: a step that can be taken is taken
SpecPenaltyFair == SpecPenalty /\ WF_vars(NextPenalty)

----------------------------------------------------------------------------
(* PRepReward.calculate followed by Voter.calculate                        *)

termVars == <<term_start, term_end, br, min_bond, total_prep_reward, total_wage>>
voterVars == <<voter_address, accum_votes, voter_reward>>

\* reward.py:210-222, 344-364  PRepReward.from_term / __init__
InitReward ==
    /\ PenaltyIdle
    /\ VotesIdle
    /\ DiffIdle
    /\ LoadIdle
    /\ rr_pc = CalculateNext("new")
    /\ executed = <<>>
    /\ term_start = TermStart
    /\ term_end = TermEnd
    /\ br \in BondRequirements
    /\ min_bond \in MinimumBonds
    /\ \E roster \in Rosters :
          preps = [a \in DOMAIN roster |-> NewPRep(roster[a], br)]
    /\ total_prep_reward = RewardIscoreOfTerm(Iglobal, Iprep, Period(TermStart, TermEnd))
    /\ total_wage = RewardIscoreOfTerm(Iglobal, Iwage, Period(TermStart, TermEnd))
    /\ total_accumulated_power = 0
    /\ ledger = EmptyDict
    /\ votes = <<>>
    /\ vote_diff_list = <<>>
    /\ voter_address = ""
    /\ accum_votes = EmptyDict
    /\ voter_reward = 0

\* reward.py:277-279  PRepReward.init_accumulated_values
InitAccumulatedValues ==
    /\ rr_pc = "init_accumulated_values"
    /\ preps' = [a \in DOMAIN preps |-> InitAccumulated(preps[a], Period(term_start, term_end))]
    /\ rr_pc' = CalculateNext("init_accumulated_values")
    /\ executed' = Append(executed, "init_accumulated_values")
    /\ UNCHANGED <<termVars, total_accumulated_power, ledger, votes, vote_diff_list, voterVars>>
    /\ UNCHANGED <<pfVars, vfVars, dfVars, ldVars>>

\* reward.py:81-83, 281-283  PRepReward.update_enables: enable = not in jail at end
UpdateEnables ==
    /\ rr_pc = "update_enables"
    /\ \E in_jail \in [DOMAIN preps -> BOOLEAN] :
          preps' = [a \in DOMAIN preps |-> [preps[a] EXCEPT !.enable = ~in_jail[a]]]
    /\ rr_pc' = CalculateNext("update_enables")
    /\ executed' = Append(executed, "update_enables")
    /\ UNCHANGED <<termVars, total_accumulated_power, ledger, votes, vote_diff_list, voterVars>>
    /\ UNCHANGED <<pfVars, vfVars, dfVars, ldVars>>

\* reward.py:285-287  PRepReward.update_penalties
UpdatePenalties ==
    /\ rr_pc = "update_penalties"
    /\ \E slashes \in SlashInputs :
          preps' = [a \in DOMAIN preps |-> UpdatePenalty(preps[a], a, slashes)]
    /\ rr_pc' = CalculateNext("update_penalties")
    /\ executed' = Append(executed, "update_penalties")
    /\ UNCHANGED <<termVars, total_accumulated_power, ledger, votes, vote_diff_list, voterVars>>
    /\ UNCHANGED <<pfVars, vfVars, dfVars, ldVars>>

\* reward.py:289-298  apply_votes: merge the vote diffs and the slash diffs, sort
ApplyVotesMerge ==
    /\ rr_pc = "apply_votes"
    /\ \E events \in EventSeqs : \E led \in Ledgers :
          LET dict == UpdateVotes(<<>>, events)
              list == SortByHeight(AllVoteDiffs(dict, led)
                                     \o AllPenaltyDiffs(preps, DOMAIN preps, term_start))
          IN /\ ConsistentLedger(preps, led, dict, list,
                                 OffsetLimit(term_start, term_end), br)
             /\ ledger' = led
             /\ votes' = dict
             /\ vote_diff_list' = list
    /\ rr_pc' = "apply_votes_replay"
    /\ UNCHANGED <<executed, termVars, preps, total_accumulated_power, voterVars>>
    /\ UNCHANGED <<pfVars, vfVars, dfVars, ldVars>>

\* reward.py:300-306  apply_votes: replay the next Vote of the list
ApplyVotesReplay ==
    /\ rr_pc = "apply_votes_replay"
    /\ vote_diff_list /= <<>>
    /\ preps' = ReplayVote(preps, Head(vote_diff_list), OffsetLimit(term_start, term_end), br)
    /\ vote_diff_list' = Tail(vote_diff_list)
    /\ UNCHANGED <<rr_pc, executed, termVars, total_accumulated_power, ledger, votes, voterVars>>
    /\ UNCHANGED <<pfVars, vfVars, dfVars, ldVars>>

\* reward.py:308-312  apply_votes: sum the accumulated power
ApplyVotesTotal ==
    /\ rr_pc = "apply_votes_replay"
    /\ vote_diff_list = <<>>
    /\ total_accumulated_power' = TotalAccumulatedPower(preps)
    /\ rr_pc' = CalculateNext("apply_votes")
    /\ executed' = Append(executed, "apply_votes")
    /\ UNCHANGED <<termVars, preps, ledger, votes, vote_diff_list, voterVars>>
    /\ UNCHANGED <<pfVars, vfVars, dfVars, ldVars>>

\* reward.py:314-323  PRepReward.calculate_reward
CalculateReward ==
    /\ rr_pc = "calculate_reward"
    /\ LET wage == FloorDiv(total_wage, Cardinality(DOMAIN preps)) IN
          preps' = [a \in DOMAIN preps |->
                       PRepCalculateReward(preps[a], total_prep_reward,
                                           total_accumulated_power, wage, min_bond)]
    /\ rr_pc' = CalculateNext("calculate_reward")
    /\ executed' = Append(executed, "calculate_reward")
    /\ UNCHANGED <<termVars, total_accumulated_power, ledger, votes, vote_diff_list, voterVars>>
    /\ UNCHANGED <<pfVars, vfVars, dfVars, ldVars>>

\* reward.py:133-144, 177-180  Voter.__init__ and Voter.calculate_accumulated_vote
VoterAccumulate ==
    /\ rr_pc = "voter"
    /\ \E address \in VoterAddrs :
          LET i == IndexOf(votes, address)
              by_votes == IF i = 0 THEN EmptyDict
                          ELSE AccumulatedVotesForVoter(votes[i], ledger,
                                                        OffsetLimit(term_start, term_end))
          IN /\ voter_address' = address
             /\ accum_votes' = UpdateAccumulatedVotesWithSlash(by_votes, preps,
                                                                term_start, address)
    /\ rr_pc' = "voter_reward"
    /\ UNCHANGED <<executed, termVars, preps, total_accumulated_power, ledger, votes,
                   vote_diff_list, voter_reward>>
    /\ UNCHANGED <<pfVars, vfVars, dfVars, ldVars>>

\* reward.py:182-198  Voter.calculate_reward
VoterReward ==
    /\ rr_pc = "voter_reward"
    /\ voter_reward' = voter_reward + VoterCalculateReward(accum_votes, preps)
    /\ rr_pc' = "done"
    /\ UNCHANGED <<executed, termVars, preps, total_accumulated_power, ledger, votes,
                   vote_diff_list, voter_address, accum_votes>>
    /\ UNCHANGED <<pfVars, vfVars, dfVars, ldVars>>

NextReward ==
    \/ InitAccumulatedValues
    \/ UpdateEnables
    \/ UpdatePenalties
    \/ ApplyVotesMerge
    \/ ApplyVotesReplay
    \/ ApplyVotesTotal
    \/ CalculateReward
    \/ VoterAccumulate
    \/ VoterReward

SpecReward == InitReward /\ [][NextReward]_vars

----------------------------------------------------------------------------
(* VoteFetcher: run, export and the import of the exported file            *)

\* most event logs of one transaction result
MaxLogs == 2

\* the range the fetcher is created for: FetchStart .. FetchStart + FetchSpan
FetchStart == 100
FetchSpan == 1

\* types/constants: address of the system contract
SYSTEM_ADDRESS == "cx0000000000000000000000000000000000000000"

\* types/event: EventSig.SetBond, EventSig.SetDelegation, EventSig.VOTE_SIG_LIST
SetBond == "SetBond(Address,bytes)"
SetDelegation == "SetDelegation(Address,bytes)"
VOTE_SIG_LIST == {SetBond, SetDelegation}

\* a data field that is not the RLP encoding of a list of [address, amount]
Malformed == [malformed |-> TRUE]

\* the event logs a transaction result may carry: votes of the system contract,
\* a vote-signed log of another contract, logs with another signature, and a
\* log with three indexed fields
EventLogs ==
    { [scoreAddress |-> SYSTEM_ADDRESS, indexed |-> <<SetBond, "v1">>,
       data |-> <<[k \in {"p1"} |-> 200]>>],
      [scoreAddress |-> SYSTEM_ADDRESS, indexed |-> <<SetDelegation, "v2">>,
       data |-> <<[k \in {"p2"} |-> 300]>>],
      [scoreAddress |-> "cx_other", indexed |-> <<SetBond, "v1">>,
       data |-> <<[k \in {"p1"} |-> 200]>>],
      [scoreAddress |-> SYSTEM_ADDRESS, indexed |-> <<"Other(Address,bytes)", "v1">>,
       data |-> <<Malformed>>],
      [scoreAddress |-> "cx_other", indexed |-> <<"Other(Address,bytes)", "v2">>,
       data |-> <<Malformed>>],
      [scoreAddress |-> SYSTEM_ADDRESS, indexed |-> <<SetBond, "v1", "v2">>,
       data |-> <<[k \in {"p1"} |-> 200]>>] }

\* the keys a transaction result's logsBloom holds for sure: the contract of
\* every log and its signature
BloomOf(logs) ==
    {logs[i].scoreAddress : i \in 1..Len(logs)} \cup {logs[i].indexed[1] : i \in 1..Len(logs)}

\* the keys tx_result_to_votes tests the filter for
BloomKeys == {SYSTEM_ADDRESS} \cup VOTE_SIG_LIST

\* the transaction results of a block: a filter holds the keys of its logs and
\* may hold others (false positives)
TxResults ==
    { [logsBloom |-> BloomOf(logs) \cup extra, eventLogs |-> logs] :
        logs \in UNION {[1..n -> EventLogs] : n \in 0..MaxLogs},
        extra \in {{}, BloomKeys} }

\* vote.py:282-291  the filter holds the system contract and a vote signature
PassesBloom(result) ==
    /\ SYSTEM_ADDRESS \in result.logsBloom
    /\ \E sig \in VOTE_SIG_LIST : sig \in result.logsBloom

\* vote.py:294-299  the logs tx_result_to_votes does not skip (owner is None)
Keeps(event) ==
    /\ ~(Len(event.indexed) /= 2 \/ Len(event.data) /= 1)
    /\ ~(event.scoreAddress /= SYSTEM_ADDRESS /\ event.indexed[1] \notin VOTE_SIG_LIST)

\* vote.py:84-101  Vote.from_event
FromEvent(offset, event) ==
    NewVote(event.indexed[2],
            IF event.indexed[1] = SetBond THEN TYPE_BOND ELSE TYPE_DELEGATE,
            offset, event.data[1])

\* vote.py:91-92  rlp_decode fails on one of the logs that are decoded
DecodeFails(result) ==
    /\ PassesBloom(result)
    /\ \E i \in 1..Len(result.eventLogs) :
          Keeps(result.eventLogs[i]) /\ result.eventLogs[i].data[1] = Malformed

RECURSIVE VotesOfLogs(_, _)
\* vote.py:293-303  the loop over the event logs
VotesOfLogs(offset, logs) ==
    IF logs = <<>> THEN <<>>
    ELSE (IF Keeps(Head(logs)) THEN <<FromEvent(offset, Head(logs))>> ELSE <<>>)
            \o VotesOfLogs(offset, Tail(logs))

\* vote.py:277-305  VoteFetcher.tx_result_to_votes
TxResultToVotes(offset, result) ==
    IF PassesBloom(result) THEN VotesOfLogs(offset, result.eventLogs) ELSE <<>>

\* vote.py:66-72  Vote.to_dict
VoteToDict(v) == [owner |-> v.owner, type |-> v.type, offset |-> v.offset, vote |-> v.values]

\* from_dict that leaves the offset at the constructor's default
VoteFromDictNoOffset(d) == NewVote(d.owner, d.type, 0, d.vote)

\* vote.py:74-82  Vote.from_dict
VoteFromDict(d) == NewVote(d.owner, d.type, d.offset, d.vote)

\* vote.py:190-194  Votes.to_dict
VotesToDict(vs) ==
    [bonds |-> [i \in 1..Len(vs.bonds) |-> VoteToDict(vs.bonds[i])],
     delegations |-> [i \in 1..Len(vs.delegations) |-> VoteToDict(vs.delegations[i])]]

RECURSIVE AppendAll(_, _)
\* vote.py:199-200  the loop of Votes.from_dict
AppendAll(vs, dicts) ==
    IF dicts = <<>> THEN vs
    ELSE AppendAll(AppendVote(vs, VoteFromDict(Head(dicts))), Tail(dicts))

\* vote.py:196-201  Votes.from_dict
VotesFromDict(owner, value) == AppendAll(NewVotes(owner), value.bonds \o value.delegations)

\* vote.py:266-275  VoteFetcher.to_dict; the votes dict as its items, in order
FetcherToDict(start, end, dict) ==
    [startHeight |-> start,
     endHeight |-> end,
     votes |-> [i \in 1..Len(dict) |-> [key |-> dict[i].owner, value |-> VotesToDict(dict[i])]]]

\* import that compares the start heights only
RangeMatchesStart(start, end, data) == start = data.startHeight

\* vote.py:226  the stored range is the range of the fetcher
RangeMatches(start, end, data) == ~(start /= data.startHeight \/ end /= data.endHeight)

RECURSIVE ImportVotes(_, _)
\* vote.py:229-230  self.__votes[addr] = Votes.from_dict(addr, votes), per item
ImportVotes(dict, items) ==
    IF items = <<>> THEN dict
    ELSE LET loaded == VotesFromDict(Head(items).key, Head(items).value)
             i == IndexOf(dict, Head(items).key)
         IN ImportVotes(IF i = 0 THEN Append(dict, loaded) ELSE [dict EXCEPT ![i] = loaded],
                        Tail(items))

\* the ranges of the fetcher that imports: the exported one, a later start, a later end
ImportRanges ==
    { <<vf_start, vf_end>>, <<vf_start + 1, vf_end>>, <<vf_start, vf_end + 1>> }

\* vote.py:205-211  VoteFetcher.__init__
InitVotes ==
    /\ PenaltyIdle
    /\ RewardIdle
    /\ DiffIdle
    /\ LoadIdle
    /\ vf_pc = "fetch"
    /\ vf_start = FetchStart
    /\ vf_end = FetchStart + FetchSpan
    /\ vf_height = FetchStart
    /\ vf_votes = <<>>
    /\ tx_result = None
    /\ tx_votes = <<>>
    /\ vf_file = None
    /\ im_start = 0
    /\ im_end = 0
    /\ im_votes = <<>>
    /\ im_raised = ""

importVars == <<vf_file, im_start, im_end, im_votes, im_raised>>
otherVars == <<pfVars, rrVars, dfVars, ldVars>>

\* vote.py:239-245  run: the transaction result of the block at height
RunGetResult ==
    /\ vf_pc = "fetch"
    /\ vf_height <= vf_end
    /\ \E result \in TxResults : tx_result' = result
    /\ vf_pc' = "scan"
    /\ UNCHANGED <<vf_start, vf_end, vf_height, vf_votes, tx_votes, importVars, otherVars>>

\* vote.py:246  run: tx_result_to_votes returns the Votes of the result
RunScan ==
    /\ vf_pc = "scan"
    /\ ~DecodeFails(tx_result)
    /\ tx_votes' = TxResultToVotes(vf_height - vf_start, tx_result)
    /\ vf_pc' = "update"
    /\ UNCHANGED <<vf_start, vf_end, vf_height, vf_votes, tx_result, importVars, otherVars>>

\* vote.py:246  run: tx_result_to_votes raises a decode error, run ends
RunScanRaises ==
    /\ vf_pc = "scan"
    /\ DecodeFails(tx_result)
    /\ vf_pc' = "failed"
    /\ UNCHANGED <<vf_start, vf_end, vf_height, vf_votes, tx_result, tx_votes, importVars,
                   otherVars>>

\* vote.py:247-248  run: update_votes, next height
RunUpdate ==
    /\ vf_pc = "update"
    /\ vf_votes' = UpdateVotes(vf_votes, tx_votes)
    /\ vf_height' = vf_height + 1
    /\ tx_result' = None
    /\ tx_votes' = <<>>
    /\ vf_pc' = "fetch"
    /\ UNCHANGED <<vf_start, vf_end, importVars, otherVars>>

\* vote.py:260-275  export, once run has returned
Export ==
    /\ vf_pc = "fetch"
    /\ vf_height > vf_end
    /\ vf_file' = FetcherToDict(vf_start, vf_end, vf_votes)
    /\ vf_pc' = "exported"
    /\ UNCHANGED <<vf_start, vf_end, vf_height, vf_votes, tx_result, tx_votes,
                   im_start, im_end, im_votes, im_raised, otherVars>>

\* vote.py:205-211  a second VoteFetcher is created with the file as import_fp
ImportNew ==
    /\ vf_pc = "exported"
    /\ \E range \in ImportRanges : im_start' = range[1] /\ im_end' = range[2]
    /\ im_votes' = <<>>
    /\ vf_pc' = "import"
    /\ UNCHANGED <<vf_start, vf_end, vf_height, vf_votes, tx_result, tx_votes, vf_file,
                   im_raised, otherVars>>

\* vote.py:223-227, 232-235  run -> _import: the stored range differs, raise
ImportRejects ==
    /\ vf_pc = "import"
    /\ ~RangeMatches(im_start, im_end, vf_file)
    /\ im_raised' = "InvalidParamsException"
    /\ vf_pc' = "import_failed"
    /\ UNCHANGED <<vf_start, vf_end, vf_height, vf_votes, tx_result, tx_votes, vf_file,
                   im_start, im_end, im_votes, otherVars>>

\* vote.py:223-230, 232-235  run -> _import: the stored range matches, load
ImportLoads ==
    /\ vf_pc = "import"
    /\ RangeMatches(im_start, im_end, vf_file)
    /\ im_votes' = ImportVotes(im_votes, vf_file.votes)
    /\ vf_pc' = "imported"
    /\ UNCHANGED <<vf_start, vf_end, vf_height, vf_votes, tx_result, tx_votes, vf_file,
                   im_start, im_end, im_raised, otherVars>>

NextVotes ==
    \/ RunGetResult
    \/ RunScan
    \/ RunScanRaises
    \/ RunUpdate
    \/ Export
    \/ ImportNew
    \/ ImportRejects
    \/ ImportLoads

SpecVotes == InitVotes /\ [][NextVotes]_vars

----------------------------------------------------------------------------
(* Vote.diff                                                               *)

\* the amounts of the Votes that are diffed
DiffAmounts == {100, 300}

\* target -> amount maps over every subset of the PReps
DiffValues == UNION { [S -> DiffAmounts] : S \in SUBSET PRepAddrs }

\* the Votes diff is called on, and its prev argument
DiffVotes ==
    { NewVote("v1", t, off, v) : t \in {TYPE_BOND, TYPE_DELEGATE}, off \in VoteOffsets,
                                 v \in DiffValues }

\* diff = self: the loop writes to self
AliasOf(ref) == ref

\* vote.py:37-40, 59  diff = deepcopy(self): a new object
DeepCopyOf(ref) == "diff"

\* vote.py:62-63  diff.values[k] = diff.values.get(k, 0) - v for the items of prev
SubtractValues(values, prev_values) ==
    [k \in (DOMAIN values) \cup (DOMAIN prev_values) |->
        IF k \in DOMAIN prev_values THEN Get(values, k) - prev_values[k] ELSE values[k]]

\* self.diff(prev) is called on two constructed Votes, or with prev = None
InitDiff ==
    /\ PenaltyIdle
    /\ RewardIdle
    /\ VotesIdle
    /\ LoadIdle
    /\ d_pc = "copy"
    /\ \E self \in DiffVotes : \E prev \in DiffVotes \cup {None} :
          /\ d_in = <<self, prev>>
          /\ d_heap = [n \in {"self", "prev"} |-> IF n = "self" THEN self ELSE prev]
    /\ d_ref = ""

notDiffVars == <<pfVars, rrVars, vfVars, ldVars>>

\* vote.py:59  diff = deepcopy(self)
DiffCopy ==
    /\ d_pc = "copy"
    /\ d_ref' = DeepCopyOf("self")
    /\ d_heap' = [n \in (DOMAIN d_heap) \cup {DeepCopyOf("self")} |->
                    IF n = DeepCopyOf("self") THEN d_heap["self"] ELSE d_heap[n]]
    /\ d_pc' = "test"
    /\ UNCHANGED <<d_in, notDiffVars>>

\* vote.py:60-61  prev is None: return the copy
DiffReturnCopy ==
    /\ d_pc = "test"
    /\ d_heap["prev"] = None
    /\ d_pc' = "done"
    /\ UNCHANGED <<d_in, d_heap, d_ref, notDiffVars>>

\* vote.py:62-64  subtract the values of prev, return
DiffSubtract ==
    /\ d_pc = "test"
    /\ d_heap["prev"] /= None
    /\ d_heap' = [d_heap EXCEPT
                    ![d_ref].values = SubtractValues(@, d_heap["prev"].values)]
    /\ d_pc' = "done"
    /\ UNCHANGED <<d_in, d_ref, notDiffVars>>

NextDiff ==
    \/ DiffCopy
    \/ DiffReturnCopy
    \/ DiffSubtract

SpecDiff == InitDiff /\ [][NextDiff]_vars

----------------------------------------------------------------------------
(* PRepReward.from_term and the queryIScore of check                       *)

\* a reply without the fields named
Without(d, keys) == [k \in (DOMAIN d) \ keys |-> d[k]]

\* the getPRepTerm replies at a height: the Term of the scenario, asked at its
\* start height or one block later, with the fields a ledger of an older
\* revision leaves out (commissionRate, Iwage, minimumBond) and one reply that
\* lacks bondRequirement
TermReplies ==
    UNION { { Without([startBlockHeight |-> TermStart,
                       blockHeight |-> h,
                       endBlockHeight |-> TermEnd,
                       bondRequirement |-> b,
                       minimumBond |-> mb,
                       rewardFund |-> Without([Iglobal |-> Iglobal, Iprep |-> Iprep,
                                               Iwage |-> Iwage], fund_lacks),
                       preps |-> [a \in DOMAIN roster |-> Without(roster[a], prep_lacks[a])]],
                      term_lacks) :
                h \in {TermStart, TermStart + 1},
                b \in BondRequirements,
                mb \in MinimumBonds,
                prep_lacks \in [DOMAIN roster -> {{}, {"commission_rate"}}],
                fund_lacks \in {{}, {"Iwage"}},
                term_lacks \in {{}, {"minimumBond"}, {"bondRequirement"}} }
            : roster \in Rosters }

\* the queryIScore replies of check
IScoreReplies == { EmptyDict, [k \in {"iscore"} |-> 500], [k \in {"iscore"} |-> 900] }

\* reward.py:346-347, 357  from_term raises: not the Term's start height
\* (InvalidParamsException) or a subscripted field is absent (KeyError)
FromTermRaises(term) ==
    \/ term.startBlockHeight /= term.blockHeight
    \/ "bondRequirement" \notin DOMAIN term

\* reward.py:120-129  PRep.from_get_prep: commissionRate read with get(.., "0x0")
FromGetPrep(prep, bondReq) ==
    NewPRep([bonded |-> prep.bonded,
             delegated |-> prep.delegated,
             commission_rate |-> Get(prep, "commission_rate")], bondReq)

\* from_term is called with a getPRepTerm reply
InitLoad ==
    /\ PenaltyIdle
    /\ RewardIdle
    /\ VotesIdle
    /\ DiffIdle
    /\ ld_pc = "from_term"
    /\ ld_term \in TermReplies
    /\ ld_replies = <<>>
    /\ ld_iscore = 0

\* reward.py:344-347, 353-364  from_term raises
LoadRaises ==
    /\ ld_pc = "from_term"
    /\ FromTermRaises(ld_term)
    /\ ld_pc' = "raised"
    /\ UNCHANGED <<ld_term, ld_replies, ld_iscore, pfVars, rrVars, vfVars, dfVars>>

\* reward.py:210-222, 344-364  from_term builds the PRepReward
LoadTerm ==
    /\ ld_pc = "from_term"
    /\ ~FromTermRaises(ld_term)
    /\ term_start' = ld_term.startBlockHeight
    /\ term_end' = ld_term.endBlockHeight
    /\ br' = ld_term.bondRequirement
    /\ min_bond' = Get(ld_term, "minimumBond")
    /\ preps' = [a \in DOMAIN ld_term.preps |->
                    FromGetPrep(ld_term.preps[a], ld_term.bondRequirement)]
    /\ total_prep_reward'
         = RewardIscoreOfTerm(ld_term.rewardFund.Iglobal, ld_term.rewardFund.Iprep,
                              Period(ld_term.startBlockHeight, ld_term.endBlockHeight))
    /\ total_wage'
         = RewardIscoreOfTerm(ld_term.rewardFund.Iglobal, Get(ld_term.rewardFund, "Iwage"),
                              Period(ld_term.startBlockHeight, ld_term.endBlockHeight))
    /\ total_accumulated_power' = 0
    /\ rr_pc' = CalculateNext("new")
    /\ ld_pc' = "loaded"
    /\ UNCHANGED <<executed, ledger, votes, vote_diff_list, voterVars>>
    /\ UNCHANGED <<ld_term, ld_replies, ld_iscore, pfVars, vfVars, dfVars>>

\* commands.py:154-156  check: the I-Score queried at start + 1 and at start
QueryIScore ==
    /\ ld_pc = "loaded"
    /\ \E after \in IScoreReplies : \E before \in IScoreReplies :
          /\ ld_replies' = <<after, before>>
          /\ ld_iscore' = Get(after, "iscore") - Get(before, "iscore")
    /\ ld_pc' = "checked"
    /\ UNCHANGED <<ld_term, pfVars, rrVars, vfVars, dfVars>>

NextLoad ==
    \/ LoadRaises
    \/ LoadTerm
    \/ QueryIScore

SpecLoad == InitLoad /\ [][NextLoad]_vars

----------------------------------------------------------------------------
(* Claims about the penalty locator                                        *)

\* the flag only gains bits along [start, end]
FlagsOnlyGainBits ==
    \A h \in start_height..(end_height - 1) :
        BitAnd(flag_at[h], flag_at[h + 1]) = flag_at[h]

\* heights of [start, end) whose block changes the flag: the flag read at h + 1
\* differs from the flag read at h
ChangeHeights == {h \in start_height..(end_height - 1) : flag_at[h] /= flag_at[h + 1]}

\* C1: when the flag only gains bits along the range, run records exactly one
\* Penalty per height at which the flag changes (the flag read after that height
\* differs from the flag read at it) and no other height, each with the bits
\* that the flag gained there; it records nothing when flagAt(start) = flagAt(end);
\* with flagAt(100) = 0, flagAt(150) = 0x4 and the single change at height 130
\* the result is exactly {130: 0x4}.
C1_ExactTransitions ==
    pf_pc = "done" =>
        /\ FlagsOnlyGainBits =>
              /\ DOMAIN penalties = ChangeHeights
              /\ \A h \in DOMAIN penalties : penalties[h] = flag_at[h + 1] - flag_at[h]
        /\ flag_at[start_height] = flag_at[end_height] => DOMAIN penalties = {}
        /\ (end_height = ScenarioEnd /\ flag_at[130] = 0 /\ flag_at[131] = 4)
              => (DOMAIN penalties = {130} /\ penalties[130] = 4)

\* a finished search over a flag sequence that gained bits at two heights
C1_Witness ==
    /\ pf_pc = "done"
    /\ FlagsOnlyGainBits
    /\ Cardinality(ChangeHeights) = 2
    /\ Cardinality(DOMAIN penalties) = 2

\* the step of run that records a transition
RecordsPenalty == DOMAIN penalties' /= DOMAIN penalties

RecordedHeight == CHOOSE h \in DOMAIN penalties' : h \notin DOMAIN penalties

\* C2 (as stated): every recorded height h has flagAt(h-1) /= flagAt(h), and
\* flagAt(low) = cur held immediately before the transition was recorded.
C2_AsStated ==
    [][RecordsPenalty =>
          /\ flag_at[RecordedHeight - 1] /= flag_at[RecordedHeight]
          /\ flag_at[low] = cur_penalty]_vars

\* C2 (amended): every recorded height h has flagAt(h) /= flagAt(h+1), and
\* immediately before the transition is recorded cur equals flagAt(h), the flag
\* just below the probed height mid = h + 1, with low <= mid <= high.
C2_RecordedIsChange ==
    [][RecordsPenalty =>
          /\ flag_at[RecordedHeight] /= flag_at[RecordedHeight + 1]
          /\ flag_at[RecordedHeight] = cur_penalty
          /\ low <= RecordedHeight + 1
          /\ RecordedHeight + 1 <= high]_vars

\* the scenario's transition at height 130 has been recorded
C2_Witness ==
    /\ end_height = ScenarioEnd
    /\ 130 \in DOMAIN penalties
    /\ flag_at[129] = flag_at[130]

----------------------------------------------------------------------------
(* Claims about the reward engine                                          *)

\* s is an initial part of t
IsPrefix(s, t) == Len(s) <= Len(t) /\ \A i \in 1..Len(s) : s[i] = t[i]

\* the steps of a computation run in the order Init, EnablesResolved,
\* ValuesAccumulated (update_penalties, apply_votes), RewardsCalculated
RunOrder ==
    << "init_accumulated_values", "update_enables", "update_penalties", "apply_votes",
       "calculate_reward" >>

\* C3: a reward computation run passes through Init, EnablesResolved,
\* ValuesAccumulated, RewardsCalculated strictly in that order: the methods that
\* have run are always an initial part of init_accumulated_values, update_enables,
\* update_penalties, apply_votes, calculate_reward, and calculate_reward is about
\* to run, or has run, only once apply_votes has set totalAccumulatedPower.
C3_StrictOrder ==
    /\ IsPrefix(executed, RunOrder)
    /\ rr_pc = "calculate_reward" => executed = SubSeq(RunOrder, 1, 4)
    /\ rr_pc \in {"voter", "voter_reward", "done"} => executed = RunOrder

\* a whole run: the five methods have completed
C3_Witness == executed = RunOrder /\ rr_pc = "done"

\* the step of apply_votes that replays the first Vote of the remaining list
ReplaysVote == rr_pc = "apply_votes_replay" /\ vote_diff_list' /= vote_diff_list

\* C4: when apply_votes replays a Vote entry (target, delta) at Term offset o for
\* an elected target, delta is added to the target's bonded (bond vote) or
\* delegated (delegation vote), accumulatedVoted grows by delta x (offsetLimit - o),
\* power becomes min(bonded * 100 // bondRequirement, bonded + delegated) and
\* accumulatedPower grows by (new power - old power) x (offsetLimit - o); a +200
\* delegation at offset 50 of a 100-block Term adds 9800 to accumulatedVoted.
C4_ReplayedEntry ==
    [][ReplaysVote =>
        LET vote == Head(vote_diff_list)
            remaining == (term_end - term_start) - vote.offset
        IN \A a \in DOMAIN preps :
            IF a \in DOMAIN vote.values
            THEN LET delta == vote.values[a]
                     old == preps[a]
                     new == preps'[a]
                     cap == (new.bonded * 100) \div br
                 IN /\ new.bonded = old.bonded + (IF vote.type = TYPE_BOND THEN delta ELSE 0)
                    /\ new.delegated
                         = old.delegated + (IF vote.type = TYPE_DELEGATE THEN delta ELSE 0)
                    /\ new.accumulated_voted = old.accumulated_voted + delta * remaining
                    /\ new.power = (IF cap <= new.bonded + new.delegated
                                    THEN cap ELSE new.bonded + new.delegated)
                    /\ new.accumulated_power
                         = old.accumulated_power + (new.power - old.power) * remaining
                    /\ (vote.type = TYPE_DELEGATE /\ vote.offset = 50 /\ delta = 200)
                          => new.accumulated_voted - old.accumulated_voted = 9800
            ELSE preps'[a] = preps[a]]_vars

\* v1's delegation of +200 to p1 at offset 50, the only Vote of the Term, replayed
C4_Witness ==
    /\ rr_pc = "apply_votes_replay"
    /\ vote_diff_list = <<>>
    /\ Len(votes) = 1
    /\ votes[1].bonds = <<>>
    /\ votes[1].delegations = <<NewVote("v1", TYPE_DELEGATE, 50, [k \in {"p1"} |-> 200])>>
    /\ ledger["v1"].delegations = EmptyDict
    /\ "p2" \in DOMAIN preps
    /\ preps["p1"].delegated = 700
    /\ preps["p1"].accumulated_voted = 1500 * 100 + 9800

\* no PRep of the roster holds a Penalty
NoPenaltyHeld == \A a \in DOMAIN preps : DOMAIN preps[a].penalties = {}

\* accumulatedVoted and accumulatedPower are the flat extrapolation over the Term
FlatValues ==
    \A a \in DOMAIN preps :
        /\ preps[a].accumulated_voted
             = (preps[a].bonded + preps[a].delegated) * (term_end - term_start + 1)
        /\ preps[a].accumulated_power = preps[a].power * (term_end - term_start + 1)
        /\ preps[a].power = 1000 => preps[a].accumulated_power = 100000

\* C5: after Init, and after a whole run with no Votes and no Penalties, every
\* PRep has accumulatedVoted = (bonded + delegated) x period and accumulatedPower
\* = power x period with period = endHeight - startHeight + 1; with start = 100,
\* end = 199 and power = 1000, accumulatedPower = 100000.
C5_FlatExtrapolation ==
    /\ rr_pc \in {"update_enables", "update_penalties", "apply_votes"} => FlatValues
    /\ (rr_pc \in {"calculate_reward", "voter", "voter_reward", "done"}
          /\ votes = <<>> /\ NoPenaltyHeld) => FlatValues

\* a whole run with no Votes and no Penalties over a PRep of power 1000
C5_Witness ==
    /\ rr_pc = "done"
    /\ votes = <<>>
    /\ NoPenaltyHeld
    /\ preps["p1"].power = 1000
    /\ preps["p1"].accumulated_power = 100000

\* calculate_reward has run
RewardsCalculated == rr_pc \in {"voter", "voter_reward", "done"}

C7_TotalIsSum ==
    (rr_pc = "calculate_reward" \/ RewardsCalculated) =>
        total_accumulated_power
            = SumOver([a \in DOMAIN preps |-> preps[a].accumulated_power], DOMAIN preps)

\* the pool is about to be distributed over an enabled and a disabled PRep that
\* both hold accumulated power, after a Vote was replayed
C7_Witness ==
    /\ rr_pc = "calculate_reward"
    /\ votes /= <<>>
    /\ \E a \in DOMAIN preps : \E b \in DOMAIN preps :
          /\ preps[a].enable /\ preps[a].accumulated_power > 0
          /\ ~preps[b].enable /\ preps[b].accumulated_power > 0

VoterShare(a) == (preps[a].voter_reward * accum_votes[a]) \div preps[a].accumulated_voted

\* C9 (as stated): Voter.calculate sets the reward to the sum, over the targets
\* that are elected PReps, of voterRewardPool x accumulated vote // accumulatedVoted,
\* where a target with a 0 or negative accumulated vote contributes 0; votes to
\* non-elected addresses are ignored.
C9_NegativeVoteNotAdded ==
    rr_pc = "done" =>
        voter_reward
            = SumOver([a \in DOMAIN accum_votes |->
                          IF a \in DOMAIN preps /\ accum_votes[a] > 0 THEN VoterShare(a) ELSE 0],
                      DOMAIN accum_votes)

\* C10 (as stated): every integer division of the reward computation (Term
\* reward pool, per-PRep reward, commission, per-PRep wage, voter share of the
\* voter reward pool) truncates toward zero, also when the dividend is negative.
C10_TruncatesTowardZero ==
    /\ rr_pc /= "idle" =>
          /\ total_prep_reward
               = TruncDiv(TruncDiv(Iglobal * Iprep, RATE_DENOM) * ICX_TO_ISCORE_RATE
                            * (term_end - term_start + 1), MONTH_BLOCK)
          /\ total_wage
               = TruncDiv(TruncDiv(Iglobal * Iwage, RATE_DENOM) * ICX_TO_ISCORE_RATE
                            * (term_end - term_start + 1), MONTH_BLOCK)
    /\ RewardsCalculated =>
          \A a \in DOMAIN preps :
              (preps[a].enable /\ preps[a].accumulated_power > 0) =>
                  LET reward == TruncDiv(total_prep_reward * preps[a].accumulated_power,
                                         total_accumulated_power)
                  IN /\ preps[a].commission
                          = TruncDiv(reward * preps[a].commission_rate, RATE_DENOM)
                     /\ preps[a].voter_reward = reward - preps[a].commission
                     /\ preps[a].wage \in {0, TruncDiv(total_wage, Cardinality(DOMAIN preps))}
    /\ rr_pc = "done" =>
          voter_reward
            = SumOver([a \in DOMAIN accum_votes |->
                          IF a \in DOMAIN preps /\ accum_votes[a] /= 0
                          THEN TruncDiv(preps[a].voter_reward * accum_votes[a],
                                        preps[a].accumulated_voted)
                          ELSE 0],
                      DOMAIN accum_votes)

\* the accumulated vote of the voter from its own Votes, before the slash correction
AccumulatedByVotes ==
    LET i == IndexOf(votes, voter_address)
    IN IF i = 0 THEN EmptyDict
       ELSE AccumulatedVotesForVoter(votes[i], ledger, OffsetLimit(term_start, term_end))

\* the Voter has computed its accumulated votes
VoterAccumulated == rr_pc \in {"voter_reward", "done"}

\* C16 (as stated): the slash correction that Voter subtracts from its
\* accumulated vote for a disabled target PRep is, for each Penalty of that PRep,
\* (sum of the Slashed amounts attributed to this voter at that height) x
\* (termEnd - penaltyHeight); enabled PReps give no correction.
C16_SlashCorrection ==
    VoterAccumulated =>
        \A a \in DOMAIN preps :
            LET correction ==
                    IF preps[a].enable THEN 0
                    ELSE SumOver([h \in DOMAIN preps[a].penalties |->
                                     SlashAmount(preps[a].penalties[h], voter_address)
                                        * (term_end - h)],
                                 DOMAIN preps[a].penalties)
            IN Get(accum_votes, a) = Get(AccumulatedByVotes, a) - correction

\* C17: after calculate_reward a PRep's wage is totalWage // (number of PReps of
\* the roster) exactly when the PRep is enabled, has accumulatedPower > 0 and its
\* bonded amount after vote replay is >= minimumBond; otherwise its wage is 0, so
\* a PRep disabled at endHeight earns no wage.
C17_Wage ==
    RewardsCalculated =>
        \A a \in DOMAIN preps :
            preps[a].wage
                = (IF preps[a].enable /\ preps[a].accumulated_power > 0
                      /\ preps[a].bonded >= min_bond
                   THEN total_wage \div Cardinality(DOMAIN preps)
                   ELSE 0)

\* of two PReps with accumulated power one is paid the wage and the other, with
\* less than minimumBond bonded after the replay of a Vote, is not
C17_Witness ==
    /\ RewardsCalculated
    /\ votes /= <<>>
    /\ \E a \in DOMAIN preps : \E b \in DOMAIN preps :
          /\ preps[a].wage = total_wage \div 2 /\ preps[a].wage > 0
          /\ preps[b].enable /\ preps[b].accumulated_power > 0
          /\ preps[b].bonded > 0 /\ preps[b].bonded < min_bond
          /\ preps[b].wage = 0

\* the orders in which the per-voter map may have been collected
PermsOf(dict) ==
    { [i \in 1..Len(dict) |-> dict[p[i]]] :
        p \in {q \in [1..Len(dict) -> 1..Len(dict)] :
                 \A i \in 1..Len(dict) : \A j \in 1..Len(dict) : q[i] = q[j] => i = j} }

RECURSIVE ReplayAll(_, _, _, _)
\* the PReps after the replay of a whole list
ReplayAll(ps, list, limit, bondReq) ==
    IF list = <<>> THEN ps
    ELSE ReplayAll(ReplayVote(ps, Head(list), limit, bondReq), Tail(list), limit, bondReq)

\* apply_votes merges and sorts
MergesVotes == rr_pc = "apply_votes" /\ rr_pc' = "apply_votes_replay"

\* C18: the result of apply_votes (every PRep's bonded, delegated, power,
\* accumulatedVoted, accumulatedPower, and totalAccumulatedPower) does not depend
\* on the order in which the Votes of different voters were collected: the map
\* collected in any other order gives, after merge, sort and replay, the PReps
\* and the total that this run ends with.
C18_OrderIndependent ==
    [][LET limit == OffsetLimit(term_start, term_end) IN
       /\ MergesVotes =>
             \A perm \in PermsOf(votes') :
                 LET list == SortByHeight(AllVoteDiffs(perm, ledger')
                                            \o AllPenaltyDiffs(preps, DOMAIN preps, term_start))
                 IN ReplayAll(preps, list, limit, br)
                       = ReplayAll(preps, vote_diff_list', limit, br)
       /\ ReplaysVote =>
             ReplayAll(preps', vote_diff_list', limit, br)
                 = ReplayAll(preps, vote_diff_list, limit, br)
       /\ (rr_pc = "apply_votes_replay" /\ rr_pc' = "calculate_reward") =>
             /\ preps' = ReplayAll(preps, vote_diff_list, limit, br)
             /\ total_accumulated_power'
                   = SumOver([a \in DOMAIN preps |-> preps'[a].accumulated_power], DOMAIN preps)
      ]_vars

\* v2's delegation at offset 0 was collected before v1's bond at offset 50, both
\* to a PRep whose power the bond unlocks, and apply_votes has ended
C18_Witness ==
    /\ rr_pc = "calculate_reward"
    /\ br = 5
    /\ Len(votes) = 2
    /\ votes[1].owner = "v2" /\ votes[2].owner = "v1"
    /\ votes[1].delegations = <<NewVote("v2", TYPE_DELEGATE, 0, [k \in {"p2"} |-> 300])>>
    /\ votes[2].bonds = <<NewVote("v1", TYPE_BOND, 50, [k \in {"p2"} |-> 300])>>
    /\ ledger["v1"].bonds = EmptyDict
    /\ "p2" \in DOMAIN preps
    /\ preps["p2"].bonded = 300 /\ preps["p2"].delegated = 800
    /\ preps["p2"].accumulated_power = 1100 * 49

ClearsBits ==
    \E h \in start_height..(end_height - 1) :
        BitAnd(flag_at[h], flag_at[h + 1]) /= flag_at[h]

\* C19: PenaltyFetcher.run terminates for every finite range [start, end] and
\* every penalty-flag function over it, including flag sequences that clear
\* bits: each loop iteration either breaks, raises low, or lowers high, and high
\* is reset to end only together with a strict increase of low.
C19_Terminates ==
    /\ [][pf_pc = "loop" =>
             \/ pf_pc' = "done" /\ low' = low /\ high' = high
             \/ low' > low /\ high' \in {high, end_height}
             \/ low' = low /\ high' < high]_vars
    /\ <>(pf_pc = "done")

\* a search over a flag function that clears bits has ended after its loop ran
C19_Witness ==
    /\ pf_pc = "done"
    /\ ClearsBits
    /\ low > start_height
    /\ penalties /= NoPenalties

----------------------------------------------------------------------------
(* Claims about the vote history builder                                   *)

\* the import of the file has ended, by a load or by an exception
ImportEnded == vf_pc \in {"imported", "import_failed"}

\* C11: importing a vote snapshot whose stored startHeight or endHeight differs
\* from the range the VoteFetcher was created for raises InvalidParamsException
\* and leaves the fetcher's per-voter votes unchanged: no voter entry of the
\* snapshot is loaded.
C11_MismatchRejected ==
    (ImportEnded /\ (vf_file.startHeight /= im_start \/ vf_file.endHeight /= im_end)) =>
        /\ vf_pc = "import_failed"
        /\ im_raised = "InvalidParamsException"
        /\ im_votes = <<>>

\* a snapshot that holds votes was refused for its endHeight alone
C11_Witness ==
    /\ vf_pc = "import_failed"
    /\ vf_file.votes /= <<>>
    /\ vf_file.startHeight = im_start
    /\ vf_file.endHeight /= im_end
    /\ im_votes = <<>>

\* two lists of Votes agree Vote by Vote, in order
SameVoteList(a, b) ==
    /\ Len(a) = Len(b)
    /\ \A i \in 1..Len(a) :
          /\ a[i].owner = b[i].owner
          /\ a[i].type = b[i].type
          /\ a[i].offset = b[i].offset
          /\ a[i].values = b[i].values

\* C12: exporting a VoteFetcher (to_dict) and importing the result into a
\* fetcher with the same [start, end] yields, for every voter, the same bonds
\* sequence and the same delegations sequence: same owner, type, offset and
\* values for each Vote, in the same order, and no voter added or lost.
C12_RoundTrip ==
    vf_pc = "imported" =>
        /\ Len(im_votes) = Len(vf_votes)
        /\ \A i \in 1..Len(vf_votes) :
              /\ im_votes[i].owner = vf_votes[i].owner
              /\ SameVoteList(im_votes[i].bonds, vf_votes[i].bonds)
              /\ SameVoteList(im_votes[i].delegations, vf_votes[i].delegations)

\* two voters, a bond and a delegation of different heights, exported and imported
C12_Witness ==
    /\ vf_pc = "imported"
    /\ Len(vf_votes) = 2
    /\ \E i \in 1..2 : \E j \in 1..2 :
          /\ vf_votes[i].bonds /= <<>> /\ vf_votes[i].bonds[1].offset = 1
          /\ vf_votes[j].delegations /= <<>> /\ vf_votes[j].delegations[1].offset = 0
    /\ Len(im_votes) = 2

\* C13: Vote.diff(prev) returns a new Vote whose value for every target k in
\* either Vote is self.values.get(k, 0) - prev.values.get(k, 0), with owner,
\* type and offset of self; diff(None) equals self; neither self nor prev is
\* modified.
C13_Diff ==
    d_pc = "done" =>
        LET self == d_in[1]
            prev == d_in[2]
            result == d_heap[d_ref]
        IN /\ d_ref \notin {"self", "prev"}
           /\ result.owner = self.owner
           /\ result.type = self.type
           /\ result.offset = self.offset
           /\ prev = None => result = self
           /\ prev /= None =>
                 /\ DOMAIN result.values = (DOMAIN self.values) \cup (DOMAIN prev.values)
                 /\ \A k \in DOMAIN result.values :
                       result.values[k]
                          = (IF k \in DOMAIN self.values THEN self.values[k] ELSE 0)
                              - (IF k \in DOMAIN prev.values THEN prev.values[k] ELSE 0)
           /\ d_heap["self"] = self
           /\ d_heap["prev"] = prev

\* a diff of two Votes that share one target and each name one the other lacks
C13_Witness ==
    /\ d_pc = "done"
    /\ d_in[2] /= None
    /\ d_in[1].values = [k \in {"p1"} |-> 300]
    /\ d_in[2].values = [k \in {"p1", "p2"} |-> 100]
    /\ d_heap[d_ref].values = [k \in {"p1", "p2"} |-> IF k = "p1" THEN 200 ELSE -100]

\* C15 (as stated): every Vote returned by VoteFetcher.tx_result_to_votes is
\* decoded from an event log whose scoreAddress is the system contract and whose
\* signature is SetBond or SetDelegation; a log from any other contract, or with
\* any other signature, never yields a Vote.
C15_OnlySystemVoteLogs ==
    vf_pc = "update" =>
        LET IsVoteLog(e) == e.scoreAddress = SYSTEM_ADDRESS
                              /\ e.indexed[1] \in {SetBond, SetDelegation}
            voteLogs == SelectSeq(tx_result.eventLogs, IsVoteLog)
        IN /\ Len(tx_votes) <= Len(voteLogs)
           /\ \A i \in 1..Len(tx_votes) : \E j \in 1..Len(voteLogs) :
                 /\ tx_votes[i].owner = voteLogs[j].indexed[2]
                 /\ tx_votes[i].values = voteLogs[j].data[1]

----------------------------------------------------------------------------
(* Claims about the ledger data                                            *)

\* C14 (as stated): when an expected field is missing from ledger data (a
\* PRep's commissionRate, the Term's Iwage or minimumBond, the iscore of a
\* queryIScore reply), the computation reports a decode or invalid-input error;
\* it never proceeds with the missing value treated as zero.
C14_MissingIsError ==
    /\ ld_pc \in {"loaded", "checked"} =>
          /\ "minimumBond" \in DOMAIN ld_term
          /\ "Iwage" \in DOMAIN ld_term.rewardFund
          /\ \A a \in DOMAIN ld_term.preps : "commission_rate" \in DOMAIN ld_term.preps[a]
    /\ ld_pc = "checked" =>
          \A i \in 1..2 : "iscore" \in DOMAIN ld_replies[i]

====
